---- MODULE Spec2Model ----
(***************************************************************************)
(* Model of PageLoadInstrumentation                                        *)
(* (app/client/src/UITelemetry/PageLoadInstrumentation.ts).                *)
(*                                                                         *)
(* One instrumentation instance and the host page around it.  Every        *)
(* callback of the class (enable, disable, the visibilitychange listener,  *)
(* the LCP and FCP report handlers, the PerformanceObserver callback, the  *)
(* poll timer callback) is one action.  Text that the code takes apart or  *)
(* puts together (URLs, entry names, dedup keys, element labels) is a      *)
(* sequence of one-character strings, so that includes(), replace(),       *)
(* toUpperCase() and template concatenation are computed, not assumed.     *)
(***************************************************************************)
EXTENDS Integers, Sequences, FiniteSets, Bags, TLC

\* ------------------------------------------------------------------ bounds
MaxEnable == 2       \* enable() calls explored
MaxDisable == 2      \* disable() calls explored
MaxBuffer == 2       \* entries in the browser's resource timing buffer
MaxSpans == 2        \* paint / content-paint spans explored
MaxTime == 3         \* largest reading of performance.now()
MaxNavReports == 2   \* first-paint reports that carry a navigation entry
MaxAncestors == 10   \* deepest DOM chain explored

\* ------------------------------------------------------- program constants
ElementNameMaxDepth == 3     \* getElementName: depth > 3

\* null / undefined of the source: an optional value is the empty sequence
\* when absent and a one-element sequence when present
Absent == <<>>
Present(x) == <<x>>
ValueOf(o) == o[1]

\* ------------------------------------------------------------------- text
Lower == <<"a","b","c","d","e","f","g","h","i","j","k","l","m",
           "n","o","p","q","r","s","t","u","v","w","x","y","z">>
Upper == <<"A","B","C","D","E","F","G","H","I","J","K","L","M",
           "N","O","P","Q","R","S","T","U","V","W","X","Y","Z">>
Digits == <<"0","1","2","3","4","5","6","7","8","9">>

\* String.prototype.toUpperCase, one character
ToUpperChar(c) ==
    IF \E i \in DOMAIN Lower : Lower[i] = c
    THEN Upper[CHOOSE i \in DOMAIN Lower : Lower[i] = c]
    ELSE c

\* Template conversion `${n}` of a non-negative integer
RECURSIVE NumToStr(_)
NumToStr(n) ==
    IF n < 10 THEN <<Digits[n + 1]>>
    ELSE NumToStr(n \div 10) \o <<Digits[(n % 10) + 1]>>

\* String.prototype.includes
includes(str, sub) ==
    \E i \in 0..(Len(str) - Len(sub)) :
        \A j \in 1..Len(sub) : str[i + j] = sub[j]

\* `v || d` of the source: the default replaces an absent or falsy value
OrDefaultNum(v, d) == IF v = Absent \/ ValueOf(v) = 0 THEN d ELSE ValueOf(v)
OrDefaultStr(v, d) == IF v = Absent \/ ValueOf(v) = "" THEN d ELSE ValueOf(v)

\* ----------------------------------------------------------------- tracer
\* generateTraces.startRootSpan / startNestedSpan and the Span handle are
\* used through their interface only.

NoAttributes == [a \in {} |-> Absent]

startRootSpan(name, attributes, startTime) ==
    [name |-> name, parent |-> "", attributes |-> attributes,
     startTime |-> startTime, ended |-> FALSE, endTime |-> Absent, endCalls |-> 0]

startNestedSpan(name, parentSpan, attributes, startTime) ==
    [name |-> name, parent |-> parentSpan.name, attributes |-> attributes,
     startTime |-> startTime, ended |-> FALSE, endTime |-> Absent, endCalls |-> 0]

\* span.end(t).  The first end sets the end time.  What a second end does is
\* left open by the Span interface: the tracer either ignores it or takes
\* the new time.  endCalls counts the calls made by the instrumentation.
SpanEnd(span, t) ==
    IF ~span.ended
    THEN {[span EXCEPT !.ended = TRUE, !.endTime = Present(t), !.endCalls = @ + 1]}
    ELSE {[span EXCEPT !.endCalls = @ + 1],
          [span EXCEPT !.endTime = Present(t), !.endCalls = @ + 1]}

\* span.setAttributes(map).  On an ended span the tracer either drops the
\* attributes or records them.
SpanSetAttributes(span, attributes) ==
    IF ~span.ended
    THEN {[span EXCEPT !.attributes = attributes]}
    ELSE {span, [span EXCEPT !.attributes = attributes]}

RootSpanName == "PAGE_LOAD"

\* --------------------------------------------------------------- variables
VARIABLES
    \* the host page
    performanceObserverGlobal, \* "constructor" | "falsy" | "undeclared"
    visibilityState,           \* document.visibilityState
    now,                       \* last reading of performance.now()
    resourceBuffer,            \* performance.getEntriesByType("resource")
    observerQueue,             \* per PerformanceObserver: entries to deliver
    connectedObservers,        \* observers that were observe()d, not disconnect()ed
    pendingTimers,             \* handles of scheduled, not yet fired timeouts
    nextTimerId,               \* handle the next setTimeout returns
    \* fields of the instance
    resourceTimingObserver,
    rootSpan,
    ignoreResourceUrls,
    pageLastHiddenAt,
    pageHiddenFor,
    wasNavigationEntryPushed,
    resourceEntriesSet,
    resourceEntryPollTimeout,
    \* what the instance has produced
    spans,                     \* bag of nested spans handed to the tracer
    raised,                    \* errors thrown out of a callback
    \* history
    enableCalls,
    disableCalls,
    lifecycle,                 \* last lifecycle call: "constructed" | "enabled" | "disabled"
    navPushes,                 \* entries passed to pushNavigationTimingToSpan
    navReports,                \* first-paint reports that carried a navigation entry
    firstNavEntry,             \* the entry of the first such report
    handledResources,          \* entries handed to getResourcesToTrack
    timerFirings,              \* poll timer callbacks run
    pollEnumerations,          \* entries the poll passes ran their forEach over
    lastHideAt,                \* time of the last hidden transition the listener saw
    lastShowAt,                \* time of the last visible transition the listener saw
    lastShowHideAt,            \* lastHideAt as it was at that visible transition
    lastElementNaming,         \* last getElementName(element) call: input and result
    skippedReports,            \* kinds of metric report handled that carried no entry
    fcpEntryReports            \* first-paint reports handled that carried an fcpEntry

hostVars == <<performanceObserverGlobal, visibilityState, now, resourceBuffer,
              observerQueue, connectedObservers, pendingTimers, nextTimerId>>
fieldVars == <<resourceTimingObserver, rootSpan, ignoreResourceUrls,
               pageLastHiddenAt, pageHiddenFor, wasNavigationEntryPushed,
               resourceEntriesSet, resourceEntryPollTimeout>>
historyVars == <<enableCalls, disableCalls, lifecycle, navPushes, navReports,
                 firstNavEntry, handledResources, timerFirings, pollEnumerations,
                 lastHideAt, lastShowAt, lastShowHideAt, lastElementNaming,
                 skippedReports, fcpEntryReports>>
vars == <<hostVars, fieldVars, spans, raised, historyVars>>

\* groups left alone by whole components
visibilityVars == <<visibilityState, now, pageLastHiddenAt, pageHiddenFor,
                    lastHideAt, lastShowAt, lastShowHideAt>>
navVars == <<wasNavigationEntryPushed, navPushes, navReports, firstNavEntry>>
reportVars == <<skippedReports, fcpEntryReports>>
resourceVars == <<resourceBuffer, observerQueue, connectedObservers,
                  pendingTimers, nextTimerId, resourceTimingObserver,
                  resourceEntriesSet, resourceEntryPollTimeout,
                  handledResources, timerFirings, pollEnumerations>>

ObserverIds == 1..MaxEnable

\* ------------------------------------------------------------------ inputs
SlashApi == <<"/","a","p","i","/">>
ApiUrl == <<"x","/","a","p","i","/","f">>
StaticUrl == <<"x","/","s",".","j","s">>
ResourceType == <<"r","e","s","o","u","r","c","e">>

\* constructor argument { ignoreResourceUrls }
IgnoreLists == { <<>>, <<SlashApi>> }

ResourceEntry(name, startTime, responseEnd) ==
    [name |-> name, startTime |-> startTime, entryType |-> ResourceType,
     responseEnd |-> responseEnd, duration |-> responseEnd]

\* The second and third entry share their identity key.
ResourceEntries ==
    { ResourceEntry(ApiUrl, 1, 1), ResourceEntry(StaticUrl, 1, 1),
      ResourceEntry(StaticUrl, 1, 2), ResourceEntry(StaticUrl, 2, 1) }

\* Navigation timing entries: two native ones that differ in
\* domContentLoadedEventEnd and one from the navigation timing polyfill,
\* which has no size and initiator fields.
NavigationEntry(dcl, native) ==
    [name |-> "https://x/", entryType |-> "navigation", startTime |-> 0,
     domContentLoadedEventEnd |-> dcl,
     decodedBodySize |-> IF native THEN Present(7) ELSE Absent,
     initiatorType |-> IF native THEN Present("navigation") ELSE Absent]

NavigationEntries ==
    { NavigationEntry(1, TRUE), NavigationEntry(2, TRUE), NavigationEntry(2, FALSE) }

FirstContentfulPaint ==
    <<"f","i","r","s","t","-","c","o","n","t","e","n","t","f","u","l","-",
      "p","a","i","n","t">>
LargestContentfulPaint ==
    <<"l","a","r","g","e","s","t","-","c","o","n","t","e","n","t","f","u","l","-",
      "p","a","i","n","t">>

PaintEntries == { [name |-> FirstContentfulPaint, entryType |-> "paint",
                   startTime |-> t] : t \in {1, 2} }

\* metric.attribution of a first-paint report
FCPReports ==
    { [fcpEntry |-> f, navigationEntry |-> n] :
        f \in {Absent} \cup {Present(e) : e \in PaintEntries},
        n \in {Absent} \cup {Present(e) : e \in NavigationEntries} }

\* The DOM: one chain of elements; element k has k ancestors.
Elements == 0..MaxAncestors
parentElement(k) == IF k = 0 THEN Absent ELSE Present(k - 1)
tagName(k) == <<"D">> \o NumToStr(k)
elementIdOf(k) == IF k % 2 = 0 THEN <<>> ELSE <<"i">> \o NumToStr(k)
classNameOf(k) == IF k % 3 = 0 THEN <<"a"," ","b">> ELSE <<>>
\* getAttribute("data-testid"): null renders as "null" in the template
testIdOf(k) == IF k % 4 = 1 THEN <<"t">> ELSE <<"n","u","l","l">>

\* The elements reported as the content-paint element: the top of the chain,
\* the two around the depth limit, and the deepest.
LCPElements == {k \in Elements : k \in {0, 3, 4} \/ k = MaxAncestors}

LCPEntries ==
    { [entryType |-> LargestContentfulPaint, startTime |-> 2, element |-> el,
       url |-> "img", renderTime |-> 2, loadTime |-> 1] :
        el \in {Absent} \cup {Present(k) : k \in LCPElements} }

\* metric.attribution of a content-paint report
LCPReports == { [lcpEntry |-> l] : l \in {Absent} \cup {Present(e) : e \in LCPEntries} }

\* ------------------------------------------------------ functions of the class

\* (mutant) the interval is added to the stored value
HiddenDuration_Accumulating(endTime, hiddenAt, previous) ==
    previous + (endTime - hiddenAt)

\* addVisibilityChangeListener, the visible branch
HiddenDuration(endTime, hiddenAt, previous) == endTime - hiddenAt

\* (mutant) the wasNavigationEntryPushed test is left out
ShouldPushNavigation_Unguarded(navigationEntry, pushed) ==
    navigationEntry # Absent

\* onFCPReport: the guard of the navigation push
ShouldPushNavigation(navigationEntry, pushed) ==
    navigationEntry # Absent /\ ~pushed

\* (mutant) the depth test is left out
NameStops_NoDepthLimit(element, depth) == element = Absent

\* getElementName: the recursion stops without an element or past depth 3
NameStops(element, depth) == element = Absent \/ depth > ElementNameMaxDepth

\* className.split(" ").join("."): every space becomes a dot
SpaceToDot(c) == IF c = " " THEN "." ELSE c
SplitJoin(str) == [i \in DOMAIN str |-> SpaceToDot(str[i])]
\* str.replace(/-/g, "_")
DashToUnderscore(c) == IF c = "-" THEN "_" ELSE c
ReplaceDashes(str) == [i \in DOMAIN str |-> DashToUnderscore(str[i])]
\* str.toUpperCase()
toUpperCase(str) == [i \in DOMAIN str |-> ToUpperChar(str[i])]

\* `${tagName}${elementId}${className}:${elementTestId}`
ElementLabel(k) ==
    LET className == IF classNameOf(k) # <<>>
                     THEN <<".">> \o SplitJoin(classNameOf(k))
                     ELSE <<>>
        elementId == IF elementIdOf(k) # <<>> THEN <<"#">> \o elementIdOf(k) ELSE <<>>
    IN  tagName(k) \o elementId \o className \o <<":">> \o testIdOf(k)

Separator == <<" ", ">", " ">>

\* getElementName(element, depth): the label, and the number of calls the
\* recursion made (this one included)
RECURSIVE getElementName(_, _)
getElementName(element, depth) ==
    IF NameStops(element, depth)
    THEN [name |-> <<>>, calls |-> 1]
    ELSE LET parent == getElementName(parentElement(ValueOf(element)), depth + 1)
         IN  [name |-> parent.name \o Separator \o ElementLabel(ValueOf(element)),
              calls |-> parent.calls + 1]

\* (mutant) replace("-", "_") without the g flag: the first dash only
kebabToScreamingSnakeCase_FirstDashOnly(str) ==
    toUpperCase([i \in DOMAIN str |->
                    IF str[i] = "-" /\ \A j \in 1..(i - 1) : str[j] # "-"
                    THEN "_" ELSE str[i]])

\* kebabToScreamingSnakeCase: str.replace(/-/g, "_").toUpperCase()
kebabToScreamingSnakeCase(str) ==
    toUpperCase(ReplaceDashes(str))

\* a nested span is started and ended in the same call
EndedNested(span, t) == CHOOSE s \in SpanEnd(span, t) : TRUE

\* pushPaintTimingToSpan
pushPaintTimingToSpan(entry, root) ==
    EndedNested(startNestedSpan(kebabToScreamingSnakeCase(entry.name), root,
                                NoAttributes, 0),
                entry.startTime)

\* (mutant) the attribute does not read the stored hidden duration
pushLcpTimingToSpan_NoHiddenDuration(entry, root, hiddenFor) ==
    EndedNested(
        startNestedSpan(kebabToScreamingSnakeCase(entry.entryType), root,
                        [url |-> entry.url, renderTime |-> entry.renderTime,
                         element |-> getElementName(entry.element, 0).name,
                         entryType |-> entry.entryType, loadTime |-> entry.loadTime,
                         pageHiddenFor |-> 0],
                        0),
        entry.startTime)

\* (mutant) a report without an fcpEntry emits a span all the same
PaintSpansOfReport_Unguarded(fcpEntry, root) ==
    IF fcpEntry # Absent
    THEN SetToBag({pushPaintTimingToSpan(ValueOf(fcpEntry), root)})
    ELSE SetToBag({EndedNested(startNestedSpan(<<>>, root, NoAttributes, 0), 0)})

\* onFCPReport, "if (fcpEntry) this.pushPaintTimingToSpan(fcpEntry)": the
\* spans a first-paint report adds
PaintSpansOfReport(fcpEntry, root) ==
    IF fcpEntry # Absent
    THEN SetToBag({pushPaintTimingToSpan(ValueOf(fcpEntry), root)})
    ELSE EmptyBag

\* pushLcpTimingToSpan
pushLcpTimingToSpan(entry, root, hiddenFor) ==
    EndedNested(
        startNestedSpan(kebabToScreamingSnakeCase(entry.entryType), root,
                        [url |-> entry.url, renderTime |-> entry.renderTime,
                         element |-> getElementName(entry.element, 0).name,
                         entryType |-> entry.entryType, loadTime |-> entry.loadTime,
                         pageHiddenFor |-> hiddenFor],
                        0),
        entry.startTime)

\* The attributes pushNavigationTimingToSpan sets (the timing fields are all
\* copied alike; domContentLoadedEventEnd stands for them)
NavigationAttributes(entry) ==
    [domContentLoadedEventEnd |-> entry.domContentLoadedEventEnd,
     decodedBodySize |-> OrDefaultNum(entry.decodedBodySize, 0),
     entryType |-> entry.entryType,
     initiatorType |-> OrDefaultStr(entry.initiatorType, "navigation"),
     navigationStartTime |-> entry.startTime,
     url |-> entry.name]

\* pushNavigationTimingToSpan: the root spans the two tracer calls can leave
pushNavigationTimingToSpan(entry, root) ==
    UNION { SpanEnd(withAttributes, entry.domContentLoadedEventEnd) :
              withAttributes \in SpanSetAttributes(root, NavigationAttributes(entry)) }

\* (mutant) nothing is filtered
getResourcesToTrack_NoFilter(resources, ignoreUrls) == resources

\* getResourcesToTrack
getResourcesToTrack(resources, ignoreUrls) ==
    SelectSeq(resources,
              LAMBDA r : ~(\E i \in DOMAIN ignoreUrls : includes(r.name, ignoreUrls[i])))

\* (mutant) the span is started and never ended
pushResourceTimingToSpan_NotEnded(entry, root) ==
    startNestedSpan(entry.name, root,
                    [entryType |-> entry.entryType, responseEnd |-> entry.responseEnd,
                     resourceDuration |-> entry.duration, url |-> entry.name],
                    entry.startTime)

\* (mutant) the span is ended at responseEnd alone
pushResourceTimingToSpan_EndAtResponseEnd(entry, root) ==
    EndedNested(
        startNestedSpan(entry.name, root,
                        [entryType |-> entry.entryType, responseEnd |-> entry.responseEnd,
                         resourceDuration |-> entry.duration, url |-> entry.name],
                        entry.startTime),
        entry.responseEnd)

\* pushResourceTimingToSpan (of the timing attributes, responseEnd and
\* resourceDuration stand for the rest)
pushResourceTimingToSpan(entry, root) ==
    EndedNested(
        startNestedSpan(entry.name, root,
                        [entryType |-> entry.entryType, responseEnd |-> entry.responseEnd,
                         resourceDuration |-> entry.duration, url |-> entry.name],
                        entry.startTime),
        entry.startTime + entry.responseEnd)

\* getResourceEntryKey
getResourceEntryKey(entry) ==
    entry.name \o <<":">> \o NumToStr(entry.startTime) \o <<":">> \o entry.entryType

\* (mutant) the dedup set is not consulted
IsNewResource_Always(key, seen) == TRUE

\* pollResourceTimingEntries: the test of the dedup set
IsNewResource(key, seen) == key \notin seen

\* (mutant) the previous timeout is left pending
ClearPrevious_Never(handle, timers) == timers

\* pollResourceTimingEntries: clearing the previous timeout
ClearPrevious(handle, timers) ==
    IF handle # 0 THEN timers \ {handle} ELSE timers

\* pollResourceTimingEntries: the forEach over the filtered entries
RECURSIVE PollForEach(_, _, _, _)
PollForEach(entries, seen, emitted, root) ==
    IF entries = <<>>
    THEN [seen |-> seen, emitted |-> emitted]
    ELSE LET key == getResourceEntryKey(Head(entries))
         IN  IF IsNewResource(key, seen)
             THEN PollForEach(Tail(entries), seen \cup {key},
                              emitted (+) SetToBag({pushResourceTimingToSpan(Head(entries), root)}),
                              root)
             ELSE PollForEach(Tail(entries), seen, emitted, root)

\* the observer callback: the forEach over the filtered entries
RECURSIVE PushForEach(_, _, _)
PushForEach(entries, emitted, root) ==
    IF entries = <<>>
    THEN emitted
    ELSE PushForEach(Tail(entries),
                     emitted (+) SetToBag({pushResourceTimingToSpan(Head(entries), root)}),
                     root)

Range(seq) == {seq[i] : i \in DOMAIN seq}

\* entries come back ordered by startTime
RECURSIVE InsertByStartTime(_, _)
InsertByStartTime(seq, e) ==
    IF seq = <<>> THEN <<e>>
    ELSE IF Head(seq).startTime > e.startTime THEN <<e>> \o seq
    ELSE <<Head(seq)>> \o InsertByStartTime(Tail(seq), e)

IsResourceSpan(s) == "resourceDuration" \in DOMAIN s.attributes

RECURSIVE SumCopies(_, _)
SumCopies(bag, set) ==
    IF set = {} THEN 0
    ELSE LET s == CHOOSE x \in set : TRUE
         IN  CopiesIn(s, bag) + SumCopies(bag, set \ {s})

PaintSpanCount == SumCopies(spans, {s \in BagToSet(spans) : ~IsResourceSpan(s)})

\* -------------------------------------------------------------------- Init
\* The state after the constructor: field initialisers, the configured
\* ignore list, and the root span started at offset 0.
Init ==
    /\ performanceObserverGlobal \in {"constructor", "falsy", "undeclared"}
    /\ visibilityState \in {"visible", "hidden"}
    /\ now = 0
    /\ resourceBuffer = <<>>
    /\ observerQueue = [o \in ObserverIds |-> <<>>]
    /\ connectedObservers = {}
    /\ pendingTimers = {}
    /\ nextTimerId = 1
    /\ resourceTimingObserver = 0
    /\ rootSpan = startRootSpan(RootSpanName, NoAttributes, 0)
    /\ ignoreResourceUrls \in IgnoreLists
    /\ pageLastHiddenAt = 0
    /\ pageHiddenFor = 0
    /\ wasNavigationEntryPushed = FALSE
    /\ resourceEntriesSet = {}
    /\ resourceEntryPollTimeout = 0
    /\ spans = EmptyBag
    /\ raised = {}
    /\ enableCalls = 0
    /\ disableCalls = 0
    /\ lifecycle = "constructed"
    /\ navPushes = <<>>
    /\ navReports = 0
    /\ firstNavEntry = Absent
    /\ handledResources = {}
    /\ timerFirings = 0
    /\ pollEnumerations = 0
    /\ lastHideAt = Absent
    /\ lastShowAt = Absent
    /\ lastShowHideAt = Absent
    /\ lastElementNaming = [element |-> Absent, name |-> <<>>, calls |-> 0]
    /\ skippedReports = {}
    /\ fcpEntryReports = 0

\* ----------------------------------------------------------------- actions

\* observeResourceTimings: a new observer replaces the stored one and is
\* subscribed with buffered: true, so the entries already in the buffer are
\* queued for it.
ObserveResourceTimings ==
    LET o == Cardinality({i \in ObserverIds : i <= enableCalls}) + 1
    IN  /\ resourceTimingObserver' = o
        /\ connectedObservers' = connectedObservers \cup {o}
        /\ observerQueue' = [observerQueue EXCEPT ![o] = resourceBuffer]
        /\ UNCHANGED <<pendingTimers, nextTimerId, resourceEntriesSet,
                       resourceEntryPollTimeout, spans, handledResources,
                       pollEnumerations, raised>>

\* pollResourceTimingEntries called on the instance (from enable)
PollResourceTimingEntries ==
    LET cleared == ClearPrevious(resourceEntryPollTimeout, pendingTimers)
        filteredResources == getResourcesToTrack(resourceBuffer, ignoreResourceUrls)
        result == PollForEach(filteredResources, resourceEntriesSet, spans, rootSpan)
    IN  /\ resourceEntriesSet' = result.seen
        /\ spans' = result.emitted
        /\ resourceEntryPollTimeout' = nextTimerId
        /\ pendingTimers' = cleared \cup {nextTimerId}
        /\ nextTimerId' = nextTimerId + 1
        /\ handledResources' = handledResources \cup Range(resourceBuffer)
        /\ pollEnumerations' = pollEnumerations + Len(filteredResources)
        /\ UNCHANGED <<resourceTimingObserver, connectedObservers, observerQueue, raised>>

\* enable(): the visibility listener and the two metric subscriptions are
\* added on every call.  `if (PerformanceObserver)` then picks the strategy;
\* where the global is not declared at all, evaluating the identifier
\* throws a ReferenceError and neither strategy is started.
Enable ==
    /\ enableCalls < MaxEnable
    /\ enableCalls' = enableCalls + 1
    /\ lifecycle' = "enabled"
    /\ CASE performanceObserverGlobal = "constructor" -> ObserveResourceTimings
         [] performanceObserverGlobal = "falsy" -> PollResourceTimingEntries
         [] performanceObserverGlobal = "undeclared" ->
                /\ raised' = raised \cup {"ReferenceError"}
                /\ UNCHANGED <<resourceTimingObserver, connectedObservers, observerQueue,
                               pendingTimers, nextTimerId, resourceEntriesSet,
                               resourceEntryPollTimeout, spans, handledResources,
                               pollEnumerations>>
    /\ UNCHANGED <<performanceObserverGlobal, resourceBuffer, rootSpan,
                   ignoreResourceUrls, visibilityVars, navVars, disableCalls,
                   timerFirings, lastElementNaming, reportVars>>

\* The visibilitychange listener(s).  Every enable() added one; they all do
\* the same assignment.  Without a listener the event changes the page only.
VisibilityChange(t) ==
    /\ t >= now /\ t <= MaxTime
    /\ now' = t
    /\ visibilityState' = IF visibilityState = "visible" THEN "hidden" ELSE "visible"
    /\ IF enableCalls = 0
       THEN UNCHANGED <<pageLastHiddenAt, pageHiddenFor, lastHideAt, lastShowAt,
                        lastShowHideAt>>
       ELSE IF visibilityState' = "hidden"
            THEN /\ pageLastHiddenAt' = t
                 /\ lastHideAt' = Present(t)
                 /\ UNCHANGED <<pageHiddenFor, lastShowAt, lastShowHideAt>>
            ELSE /\ pageHiddenFor' = HiddenDuration(t, pageLastHiddenAt, pageHiddenFor)
                 /\ lastShowAt' = Present(t)
                 /\ lastShowHideAt' = lastHideAt
                 /\ UNCHANGED <<pageLastHiddenAt, lastHideAt>>
    /\ UNCHANGED <<performanceObserverGlobal, rootSpan, ignoreResourceUrls, resourceVars,
                   navVars, spans, raised, enableCalls, disableCalls, lifecycle,
                   lastElementNaming, reportVars>>

\* onLCPReport
OnLCPReport(metric) ==
    /\ enableCalls > 0
    /\ IF metric.lcpEntry # Absent
       THEN /\ PaintSpanCount < MaxSpans
            /\ spans' = spans (+) SetToBag({pushLcpTimingToSpan(ValueOf(metric.lcpEntry),
                                                                rootSpan, pageHiddenFor)})
            /\ lastElementNaming' =
                   [element |-> ValueOf(metric.lcpEntry).element,
                    name |-> getElementName(ValueOf(metric.lcpEntry).element, 0).name,
                    calls |-> getElementName(ValueOf(metric.lcpEntry).element, 0).calls]
            /\ UNCHANGED skippedReports
       ELSE /\ skippedReports' = skippedReports \cup {"lcp"}
            /\ UNCHANGED <<spans, lastElementNaming>>
    /\ UNCHANGED <<performanceObserverGlobal, rootSpan, ignoreResourceUrls, resourceVars,
                   visibilityVars, navVars, raised, enableCalls, disableCalls, lifecycle,
                   fcpEntryReports>>

\* onFCPReport
OnFCPReport(metric) ==
    /\ enableCalls > 0
    /\ metric.navigationEntry # Absent => navReports < MaxNavReports
    /\ metric.fcpEntry # Absent => PaintSpanCount < MaxSpans
    /\ IF ShouldPushNavigation(metric.navigationEntry, wasNavigationEntryPushed)
       THEN /\ rootSpan' \in pushNavigationTimingToSpan(ValueOf(metric.navigationEntry),
                                                       rootSpan)
            /\ wasNavigationEntryPushed' = TRUE
            /\ navPushes' = Append(navPushes, ValueOf(metric.navigationEntry))
       ELSE UNCHANGED <<rootSpan, wasNavigationEntryPushed, navPushes>>
    /\ IF metric.navigationEntry # Absent
       THEN /\ navReports' = navReports + 1
            /\ firstNavEntry' = IF firstNavEntry = Absent
                                THEN metric.navigationEntry ELSE firstNavEntry
       ELSE UNCHANGED <<navReports, firstNavEntry>>
    /\ spans' = spans (+) PaintSpansOfReport(metric.fcpEntry, rootSpan')
    /\ fcpEntryReports' = fcpEntryReports + (IF metric.fcpEntry # Absent THEN 1 ELSE 0)
    /\ skippedReports' = IF metric.fcpEntry = Absent /\ metric.navigationEntry = Absent
                         THEN skippedReports \cup {"fcp"} ELSE skippedReports
    /\ UNCHANGED <<performanceObserverGlobal, ignoreResourceUrls, resourceVars,
                   visibilityVars, raised, enableCalls, disableCalls, lifecycle,
                   lastElementNaming>>

\* The browser records a finished fetch: it joins the resource timing buffer
\* and the queue of every connected observer.
AddResource(e) ==
    /\ Len(resourceBuffer) < MaxBuffer
    /\ resourceBuffer' = InsertByStartTime(resourceBuffer, e)
    /\ observerQueue' = [o \in ObserverIds |->
                            IF o \in connectedObservers
                            THEN InsertByStartTime(observerQueue[o], e)
                            ELSE observerQueue[o]]
    /\ UNCHANGED <<performanceObserverGlobal, connectedObservers, pendingTimers,
                   nextTimerId, fieldVars, visibilityState, now, spans, raised,
                   historyVars>>

\* The callback given to new PerformanceObserver, run with the entries
\* queued for that observer.
ObserverCallback(o) ==
    /\ o \in connectedObservers
    /\ observerQueue[o] # <<>>
    /\ LET entries == observerQueue[o]
           resources == getResourcesToTrack(entries, ignoreResourceUrls)
       IN  /\ spans' = PushForEach(resources, spans, rootSpan)
           /\ handledResources' = handledResources \cup Range(entries)
    /\ observerQueue' = [observerQueue EXCEPT ![o] = <<>>]
    /\ UNCHANGED <<performanceObserverGlobal, resourceBuffer, connectedObservers,
                   pendingTimers, nextTimerId, fieldVars, visibilityState, now, raised,
                   enableCalls, disableCalls, lifecycle, navPushes, navReports,
                   firstNavEntry, timerFirings, pollEnumerations, lastHideAt, lastShowAt,
                   lastShowHideAt, lastElementNaming, reportVars>>

\* The poll timeout fires.  setTimeout was given this.pollResourceTimingEntries
\* unbound, so the callback runs with a `this` that is not the instance (the
\* global object, or undefined): this.resourceEntryPollTimeout is not the
\* stored handle, nothing is cleared, and the call of
\* this.getResourcesToTrack (or the first read of `this`) throws a TypeError
\* before any entry is looked at and before the next timeout is set.
TimerFire(h) ==
    /\ h \in pendingTimers
    /\ pendingTimers' = pendingTimers \ {h}
    /\ raised' = raised \cup {"TypeError"}
    /\ timerFirings' = timerFirings + 1
    /\ UNCHANGED <<performanceObserverGlobal, resourceBuffer, observerQueue,
                   connectedObservers, nextTimerId, fieldVars, visibilityState, now,
                   spans, enableCalls, disableCalls, lifecycle, navPushes, navReports,
                   firstNavEntry, handledResources, pollEnumerations, lastHideAt,
                   lastShowAt, lastShowHideAt, lastElementNaming, reportVars>>

\* disable(): disconnects the stored observer, if any, and ends the root
\* span at the tracer's current time t.  The poll timeout is not touched.
Disable(t) ==
    /\ disableCalls < MaxDisable
    /\ t >= now /\ t <= MaxTime
    /\ disableCalls' = disableCalls + 1
    /\ lifecycle' = "disabled"
    /\ IF resourceTimingObserver # 0
       THEN /\ connectedObservers' = connectedObservers \ {resourceTimingObserver}
            /\ observerQueue' = [observerQueue EXCEPT ![resourceTimingObserver] = <<>>]
       ELSE UNCHANGED <<connectedObservers, observerQueue>>
    /\ rootSpan' \in SpanEnd(rootSpan, t)
    /\ UNCHANGED <<performanceObserverGlobal, visibilityState, now, resourceBuffer,
                   pendingTimers, nextTimerId, resourceTimingObserver,
                   ignoreResourceUrls, pageLastHiddenAt, pageHiddenFor,
                   wasNavigationEntryPushed, resourceEntriesSet,
                   resourceEntryPollTimeout, spans, raised, enableCalls,
                   navPushes, navReports, firstNavEntry, handledResources, timerFirings,
                   pollEnumerations, lastHideAt, lastShowAt, lastShowHideAt,
                   lastElementNaming, reportVars>>

\* ------------------------------------------------------------ specifications
Times == 0..MaxTime

\* The whole instrumentation.
Next ==
    \/ Enable
    \/ \E t \in Times : Disable(t)
    \/ \E t \in Times : VisibilityChange(t)
    \/ \E m \in LCPReports : OnLCPReport(m)
    \/ \E m \in FCPReports : OnFCPReport(m)
    \/ \E e \in ResourceEntries : AddResource(e)
    \/ \E o \in ObserverIds : ObserverCallback(o)
    \/ \E h \in 1..MaxEnable : TimerFire(h)

Spec == Init /\ [][Next]_vars

\* The two specifications below each leave out the callbacks of the other:
\* no callback of one reads a variable that a callback left out of it writes
\* (the content-paint handler reads the root span's name only).

\* The reports that carry an entry.  The handlers return at once on the
\* others: those reports are explored in SpecMetrics and left out of the
\* other specifications.
CarriesEntry(m) == \E f \in DOMAIN m : m[f] # Absent

\* The root span: lifecycle calls and first-paint reports.
NextNavigation ==
    \/ Enable
    \/ \E t \in Times : Disable(t)
    \/ \E m \in FCPReports : CarriesEntry(m) /\ OnFCPReport(m)

SpecNavigation == Init /\ [][NextNavigation]_vars

\* The resource collector: lifecycle calls, fetches, observer batches and
\* timer firings.
NextResources ==
    \/ Enable
    \/ \E t \in Times : Disable(t)
    \/ \E e \in ResourceEntries : AddResource(e)
    \/ \E o \in ObserverIds : ObserverCallback(o)
    \/ \E h \in 1..MaxEnable : TimerFire(h)

SpecResources == Init /\ [][NextResources]_vars

\* The visibility tracker and the content-paint reports.
NextPaint ==
    \/ Enable
    \/ \E t \in Times : VisibilityChange(t)
    \/ \E m \in LCPReports : CarriesEntry(m) /\ OnLCPReport(m)

SpecPaint == Init /\ [][NextPaint]_vars

\* The metric report handlers: both kinds of report, after enable().
NextMetrics ==
    \/ Enable
    \/ \E m \in LCPReports : OnLCPReport(m)
    \/ \E m \in FCPReports : OnFCPReport(m)

SpecMetrics == Init /\ [][NextMetrics]_vars

\* Every callback that creates a nested span, with the fetches that feed the
\* collector.  The first-paint reports here carry no navigation entry (what a
\* navigation entry does to the root span is explored in SpecNavigation) and
\* the content-paint entries no element (element naming is explored in
\* SpecPaint).
NextSpans ==
    \/ Enable
    \/ \E m \in LCPReports :
          /\ CarriesEntry(m)
          /\ ValueOf(m.lcpEntry).element = Absent
          /\ OnLCPReport(m)
    \/ \E m \in FCPReports :
          /\ CarriesEntry(m)
          /\ m.navigationEntry = Absent
          /\ OnFCPReport(m)
    \/ \E e \in ResourceEntries : AddResource(e)
    \/ \E o \in ObserverIds : ObserverCallback(o)

SpecSpans == Init /\ [][NextSpans]_vars

\* ------------------------------------------------------------------ claims

Ignored(name) ==
    \E i \in DOMAIN ignoreResourceUrls : includes(name, ignoreResourceUrls[i])

ResourceSpans == {s \in BagToSet(spans) : IsResourceSpan(s)}

\* the identity key of the entry a resource span was made from
SpanKey(s) ==
    getResourceEntryKey([name |-> s.name, startTime |-> s.startTime,
                         entryType |-> s.attributes.entryType])

SpansOfKey(key) == SumCopies(spans, {s \in ResourceSpans : SpanKey(s) = key})

\* C1: however many first-paint reports carry a navigation entry,
\* pushNavigationTimingToSpan runs once, with the entry of the first such
\* report; while no disable() has intervened the root span then carries that
\* entry's attributes and is ended once, at its domContentLoadedEventEnd; and a
\* later report that carries a navigation entry leaves the root span as it is.
C1_NavigationOnceState ==
    /\ Len(navPushes) <= 1
    /\ wasNavigationEntryPushed <=> navReports > 0
    /\ navReports > 0 => navPushes = <<ValueOf(firstNavEntry)>>
    /\ (navReports > 0 /\ disableCalls = 0) =>
          /\ rootSpan.attributes = NavigationAttributes(ValueOf(firstNavEntry))
          /\ rootSpan.endTime = Present(ValueOf(firstNavEntry).domContentLoadedEventEnd)
          /\ rootSpan.endCalls = 1
\* C1: the state part above holds always, and a later first-paint report
\* with a navigation entry changes nothing of the root span.
C1_ExactlyOnceNavigation ==
    /\ []C1_NavigationOnceState
    /\ [][(navReports > 0 /\ navReports' > navReports) => rootSpan' = rootSpan]_vars

\* C1 witness: two reports carried a navigation entry, the root span was
\* ended once and holds the first entry's attributes.
C1_Witness ==
    /\ navReports = 2
    /\ disableCalls = 0
    /\ rootSpan.endCalls = 1
    /\ rootSpan.attributes = NavigationAttributes(NavigationEntry(1, TRUE))

\* C2: under the poll strategy no identity key has more than one resource
\* span, every key in the dedup set has exactly one, and every tracked entry
\* a pass enumerated has its key in the set; also for one key met twice in a
\* pass or in two passes.
C2_PollDedup ==
    performanceObserverGlobal = "falsy" =>
        /\ \A s \in ResourceSpans : SpansOfKey(SpanKey(s)) = 1
        /\ \A e \in ResourceEntries :
              LET key == getResourceEntryKey(e)
              IN  /\ key \in resourceEntriesSet => SpansOfKey(key) = 1
                  /\ (e \in handledResources /\ ~Ignored(e.name)) =>
                         key \in resourceEntriesSet

\* C2 witness: the passes enumerated two tracked entries, which had one key
\* between them, and one span was emitted.
C2_Witness ==
    /\ performanceObserverGlobal = "falsy"
    /\ pollEnumerations >= 2
    /\ Cardinality(resourceEntriesSet) = 1
    /\ BagCardinality(spans) = 1

\* C3 (as claimed): once the root span is ended, no later call ends it again
\* or changes its end time.
C3_RootEndedOnce ==
    [][rootSpan.ended =>
          /\ rootSpan'.endTime = rootSpan.endTime
          /\ rootSpan'.endCalls = rootSpan.endCalls]_vars

\* C4 (as claimed): after disable() no poll timeout is pending.
C4_DisableCancelsPoll ==
    lifecycle = "disabled" => pendingTimers = {}

\* C5: no resource span is named after an ignored URL, no ignored entry's key
\* is in the dedup set, and every entry handed to a callback or a pass whose
\* URL is not ignored has a span; with "/api/" ignored that is: never a span
\* for x/api/f.
C5_IgnoreFiltering ==
    /\ \A s \in ResourceSpans : ~Ignored(s.name)
    /\ ignoreResourceUrls = <<SlashApi>> => \A s \in ResourceSpans : s.name # ApiUrl
    /\ \A e \in ResourceEntries :
          Ignored(e.name) => getResourceEntryKey(e) \notin resourceEntriesSet
    /\ \A e \in handledResources :
          ~Ignored(e.name) =>
              \E s \in ResourceSpans :
                  /\ s.name = e.name
                  /\ s.startTime = e.startTime
                  /\ s.attributes.entryType = e.entryType

\* C5 witness: with "/api/" ignored, an api entry and a static entry were
\* both handled and the spans are those of the static entry alone.
C5_Witness ==
    /\ ignoreResourceUrls = <<SlashApi>>
    /\ ResourceEntry(ApiUrl, 1, 1) \in handledResources
    /\ ResourceEntry(StaticUrl, 2, 1) \in handledResources
    /\ \A s \in ResourceSpans : s.name = StaticUrl
    /\ ResourceSpans # {}

\* C6: after a visible transition that followed a hidden transition (both
\* seen by the listener) the stored duration is the time of the one minus the
\* time of the other, whatever was stored before; a hidden transition sets
\* pageLastHiddenAt and leaves the stored duration alone.
C6_HiddenDurationState ==
    /\ (lastShowAt # Absent /\ lastShowHideAt # Absent) =>
          pageHiddenFor = ValueOf(lastShowAt) - ValueOf(lastShowHideAt)
    /\ lastHideAt # Absent => pageLastHiddenAt = ValueOf(lastHideAt)
\* C6: the state part above holds always, and a transition to hidden leaves
\* the stored duration unchanged.
C6_HiddenDuration ==
    /\ []C6_HiddenDurationState
    /\ [][(visibilityState = "visible" /\ visibilityState' = "hidden") =>
            pageHiddenFor' = pageHiddenFor]_vars

\* C6 witness: a content-paint span recorded a hidden duration of 2, and a
\* later hide/show cycle of length 1 has replaced it.
C6_Witness ==
    /\ \E s \in BagToSet(spans) :
          "pageHiddenFor" \in DOMAIN s.attributes /\ s.attributes.pageHiddenFor = 2
    /\ lastShowAt = Present(3)
    /\ lastShowHideAt = Present(2)
    /\ pageHiddenFor = 1

\* C7: at most one poll timeout is pending.
C7_OnePendingTimer == Cardinality(pendingTimers) <= 1

\* C7 witness: a second pass has replaced the first pass's timeout, which
\* never fired.
C7_Witness ==
    /\ performanceObserverGlobal = "falsy"
    /\ enableCalls = 2
    /\ timerFirings = 0
    /\ pendingTimers = {2}

\* C8 (as claimed): while not disabled, a firing of the poll timeout runs a
\* pass on the instance (every tracked entry of the buffer is in the dedup set
\* afterwards) and leaves the next timeout pending.
C8_PollRearms ==
    [][(timerFirings' > timerFirings /\ lifecycle # "disabled") =>
          /\ pendingTimers' # {}
          /\ \A i \in DOMAIN resourceBuffer :
                ~Ignored(resourceBuffer[i].name) =>
                    getResourceEntryKey(resourceBuffer[i]) \in resourceEntriesSet']_vars

\* C9 (as claimed): enable() raises nothing, starts the observer where
\* PerformanceObserver is available and the poll where it is not, and never
\* are an observer and a poll timeout both live.
C9_ExclusiveStrategies ==
    /\ "ReferenceError" \notin raised
    /\ ~(connectedObservers # {} /\ pendingTimers # {})
    /\ lifecycle = "enabled" =>
          IF performanceObserverGlobal = "constructor"
          THEN connectedObservers # {} /\ resourceEntryPollTimeout = 0
          ELSE resourceTimingObserver = 0 /\ resourceEntryPollTimeout # 0

\* the label of element k as the claim states it: the element and at most
\* three ancestors, outermost first, each after a separator
RECURSIVE LabelsFrom(_, _)
LabelsFrom(first, last) ==
    IF first > last THEN <<>>
    ELSE Separator \o ElementLabel(first) \o LabelsFrom(first + 1, last)

ExpectedElementName(k) == LabelsFrom(IF k > 3 THEN k - 3 ELSE 0, k)

Contributions(name) == Cardinality({i \in DOMAIN name : name[i] = ">"})

\* C10: getElementName(element) returns after at most 5 calls whatever the
\* depth of the DOM; it is "" without an element or at a depth above 3; for an
\* element it is made of the labels of the element and at most 3 ancestors,
\* outermost first.
C10_DepthBoundedNaming ==
    lastElementNaming.calls > 0 =>
        LET element == lastElementNaming.element
        IN  /\ lastElementNaming.calls <= 5
            /\ Contributions(lastElementNaming.name) <= 4
            /\ getElementName(element, 4).name = <<>>
            /\ element = Absent => lastElementNaming.name = <<>>
            /\ element # Absent =>
                  lastElementNaming.name = ExpectedElementName(ValueOf(element))

\* C10 witness: the element with 10 ancestors was named in 5 calls, from 4
\* elements.
C10_Witness ==
    /\ lastElementNaming.element = Present(10)
    /\ lastElementNaming.calls = 5
    /\ Contributions(lastElementNaming.name) = 4

FIRST_CONTENTFUL_PAINT ==
    <<"F","I","R","S","T","_","C","O","N","T","E","N","T","F","U","L","_",
      "P","A","I","N","T">>
LARGEST_CONTENTFUL_PAINT ==
    <<"L","A","R","G","E","S","T","_","C","O","N","T","E","N","T","F","U","L","_",
      "P","A","I","N","T">>

PaintSpans == {s \in BagToSet(spans) : ~IsResourceSpan(s)}
IsLcpSpan(s) == "pageHiddenFor" \in DOMAIN s.attributes

\* C11: a content-paint span is named LARGEST_CONTENTFUL_PAINT and a
\* first-paint span FIRST_CONTENTFUL_PAINT: the entry's kebab-case name with
\* each dash made an underscore and each letter upper-cased; the name is as
\* long as the entry's and converting it again changes nothing.
C11_ScreamingSnakeNames ==
    \A s \in PaintSpans :
        /\ s.name = IF IsLcpSpan(s) THEN LARGEST_CONTENTFUL_PAINT
                                    ELSE FIRST_CONTENTFUL_PAINT
        /\ Len(s.name) = IF IsLcpSpan(s) THEN Len(LargestContentfulPaint)
                                         ELSE Len(FirstContentfulPaint)
        /\ kebabToScreamingSnakeCase(s.name) = s.name

\* C11 witness: a content-paint span and a first-paint span were emitted.
C11_Witness ==
    /\ \E s \in PaintSpans : IsLcpSpan(s) /\ s.name = LARGEST_CONTENTFUL_PAINT
    /\ \E s \in PaintSpans : ~IsLcpSpan(s) /\ s.name = FIRST_CONTENTFUL_PAINT

\* C12 (as claimed): once disable() has returned, and until enable() is called
\* again, no callback adds a nested span or pushes navigation timing.
C12_NoSpansAfterDisable ==
    [][(lifecycle = "disabled" /\ lifecycle' = "disabled") =>
          /\ spans' = spans
          /\ navPushes' = navPushes]_vars

\* C13 (as claimed): after disable() no observer created by enable() is still
\* subscribed.
C13_DisableDisconnectsAll ==
    lifecycle = "disabled" => connectedObservers = {}

KeysDistinct(entries) ==
    \A i, j \in DOMAIN entries :
        i # j => getResourceEntryKey(entries[i]) # getResourceEntryKey(entries[j])

\* C14 (as claimed): under the push strategy no identity key has more than
\* one resource span.  (Stated for buffers whose entries have distinct keys,
\* so that two spans of a key are two spans of one entry.)
C14_PushOneSpanPerKey ==
    (performanceObserverGlobal = "constructor" /\ KeysDistinct(resourceBuffer)) =>
        \A s \in ResourceSpans : SpansOfKey(SpanKey(s)) <= 1

\* C15: the instance has one root span, PAGE_LOAD, started at 0 by the
\* constructor and parent of nothing else than the nested spans; every nested
\* span handed to the tracer is a child of it and, once the callback that made
\* it has returned, has been ended exactly once.
C15_NestedSpansClosed ==
    /\ rootSpan.name = RootSpanName
    /\ rootSpan.parent = ""
    /\ rootSpan.startTime = 0
    /\ \A s \in BagToSet(spans) :
          /\ s.parent = rootSpan.name
          /\ s.ended
          /\ s.endCalls = 1
          /\ s.endTime # Absent

\* C15 witness: a resource span, a first-paint span and a content-paint span
\* have been made, each closed.
C15_Witness ==
    /\ ResourceSpans # {}
    /\ \E s \in PaintSpans : IsLcpSpan(s) /\ s.ended
    /\ \E s \in PaintSpans : ~IsLcpSpan(s) /\ s.ended

\* C16: a resource span carries the URL of a handled entry as its name, that
\* entry's startTime as its start and startTime + responseEnd as its end (so
\* it never ends before it starts); a first-paint or content-paint span starts
\* at 0 and ends at the startTime of the entry it was made from.
C16_SpanTimes ==
    /\ \A s \in ResourceSpans :
          /\ s.endTime # Absent
          /\ ValueOf(s.endTime) >= s.startTime
          /\ \E e \in handledResources :
                /\ s.name = e.name
                /\ s.startTime = e.startTime
                /\ s.endTime = Present(e.startTime + e.responseEnd)
    /\ \A s \in PaintSpans :
          /\ s.startTime = 0
          /\ IF IsLcpSpan(s)
             THEN \E e \in LCPEntries :
                    /\ s.attributes.url = e.url
                    /\ s.attributes.renderTime = e.renderTime
                    /\ s.attributes.loadTime = e.loadTime
                    /\ s.endTime = Present(e.startTime)
             ELSE \E e \in PaintEntries :
                    /\ s.name = FIRST_CONTENTFUL_PAINT
                    /\ s.endTime = Present(e.startTime)

\* C16 witness: the span of a fetch that started at 2 and whose responseEnd is
\* 1 ends at 3, next to a first-paint span ended at 1 and a content-paint span.
C16_Witness ==
    /\ \E s \in ResourceSpans :
          s.startTime = 2 /\ s.attributes.responseEnd = 1 /\ s.endTime = Present(3)
    /\ \E s \in PaintSpans : ~IsLcpSpan(s) /\ s.startTime = 0 /\ s.endTime = Present(1)
    /\ \E s \in PaintSpans : IsLcpSpan(s) /\ s.startTime = 0 /\ s.endTime = Present(2)

\* The spans a step added to the trace
AddedSpans == {s \in BagToSet(spans') : CopiesIn(s, spans') = CopiesIn(s, spans) + 1}

\* C17: the content-paint span a report adds carries the hidden duration
\* stored when the report is handled, which is the length of the latest
\* hidden interval the listener saw complete (0 before the page was shown
\* again); the step that adds it leaves the stored duration and the hidden-at
\* time alone, and these two change only in a step that changes the
\* visibility state.
C17_HiddenDurationSnapshot ==
    [][/\ \A s \in AddedSpans :
              /\ IsLcpSpan(s)
              /\ s.attributes.pageHiddenFor = pageHiddenFor
              /\ lastShowAt = Absent => s.attributes.pageHiddenFor = 0
              /\ (lastShowAt # Absent /\ lastShowHideAt # Absent) =>
                    s.attributes.pageHiddenFor =
                        ValueOf(lastShowAt) - ValueOf(lastShowHideAt)
              /\ pageHiddenFor' = pageHiddenFor
              /\ pageLastHiddenAt' = pageLastHiddenAt
       /\ (pageHiddenFor' # pageHiddenFor \/ pageLastHiddenAt' # pageLastHiddenAt) =>
              /\ visibilityState' # visibilityState
              /\ spans' = spans]_vars

\* C17 witness: one content-paint span was made before the page was ever
\* hidden and carries 0, a later one carries the hidden interval of length 1
\* that completed in between.
C17_Witness ==
    /\ \E s \in PaintSpans : IsLcpSpan(s) /\ s.attributes.pageHiddenFor = 0
    /\ \E s \in PaintSpans : IsLcpSpan(s) /\ s.attributes.pageHiddenFor = 1
    /\ pageHiddenFor = 1
    /\ lastShowAt # Absent

FcpSpanCount == SumCopies(spans, {s \in PaintSpans : ~IsLcpSpan(s)})

\* C18: a content-paint report without an lcpEntry and a first-paint report
\* with neither entry change nothing of the instance and of what it produced:
\* no span, no error, the same flag, root span, dedup set and hidden duration;
\* and there are exactly as many first-paint spans as first-paint reports that
\* carried an fcpEntry, so a report with a navigation entry alone adds none.
C18_EmptyReportsSkipped ==
    /\ [](FcpSpanCount = fcpEntryReports)
    /\ [][skippedReports' # skippedReports =>
             UNCHANGED <<hostVars, fieldVars, spans, raised, navPushes, navReports,
                         lastElementNaming>>]_vars

\* C18 witness: both kinds of empty report have been handled, and so has a
\* first-paint report with a navigation entry alone, which marked the
\* navigation as recorded; there is no span.
C18_Witness ==
    /\ skippedReports = {"lcp", "fcp"}
    /\ navReports = 1
    /\ wasNavigationEntryPushed
    /\ fcpEntryReports = 0
    /\ spans = EmptyBag
    /\ raised = {}

C20_RootUntouchedAfterEnd ==
    [][/\ rootSpan.ended =>
            /\ rootSpan'.attributes = rootSpan.attributes
            /\ navPushes' = navPushes
       /\ AddedSpans # {} => ~rootSpan'.ended]_vars

====
